---- MODULE Spec2Model ----
(***************************************************************************)
(* Signaling server of the VideoChat repository (src/Backend/server.js):   *)
(* the in-memory room registry, the socket.io room membership of every     *)
(* socket, and the handlers the server registers on each connection.       *)
(* Every handler runs to completion on the single Node.js event loop, so   *)
(* each handler is one atomic action.  The client hook                     *)
(* (src/Backend/useWebRTC.ts) follows the server; Spec is the server with  *)
(* arbitrary clients, HookSpec one hook with an arbitrary server, CallSpec *)
(* the server with two hooks, ControlSpec one hook and its controls.       *)
(***************************************************************************)
EXTENDS Naturals, Sequences, FiniteSets

(***************************************************************************)
(* Bounds of the model.                                                    *)
(***************************************************************************)
\* number of sockets that ever connect
MaxConns == 3
\* number of distinct values generateRoomId can return
MaxRoomIds == 2
\* number of events the server handles in one run
MaxEvents == 7

\* capacity test of the join-room handler: room.users.length >= 2
MaxUsers == 2

(***************************************************************************)
(* Identifiers.  Socket ids and room ids are strings of one namespace: the *)
(* socket.io adapter keys its rooms by string, and every socket is a       *)
(* member of the room named by its own id.                                 *)
(***************************************************************************)
SocketIdPool == <<"s1", "s2", "s3", "s4", "s5">>
RoomIdPool   == <<"r1", "r2", "r3", "r4">>

Conns   == {SocketIdPool[i] : i \in 1..MaxConns}
RoomIds == {RoomIdPool[i] : i \in 1..MaxRoomIds}

\* undefined / absent (falsy in the source)
None == ""

\* userName of a join-room request: absent, or a supplied name
UserNames == {None, "Bob"}
\* targetId of a relayed message: any string a client chooses
TargetIds == Conns \cup RoomIds \cup {"broadcast"}
\* opaque payload of a relayed message
Payloads == {"sdp"}
RelayKinds == {"offer", "answer", "ice-candidate"}
\* senderId field a client puts in a relayed request: true for the first
\* socket, forged for the others (the handlers never read it)
ClaimedSenderIds == {SocketIdPool[1]}
Statuses == {"muted"}

VARIABLES
  rooms,          \* the registry: room id -> sequence of users (room.users)
  status,         \* socket id -> "new" | "connected" | "disconnected"
  socketRoomId,   \* socket.roomId
  socketUserName, \* socket.userName
  adapterRooms,   \* socket id -> the socket.io rooms the socket is in
  ev,             \* the event the last handler processed
  sent,           \* the messages the last handler emitted
  initiatorTold,  \* per socket and room, the isInitiator of the last room-joined
  console,        \* the lines the last handler wrote with console.log
  nEvents         \* number of events handled so far

VARIABLES
  hook,           \* per hook: its refs and the state it exposes
  pcs,            \* per hook: the RTCPeerConnection objects it has created
  tasks,          \* per hook: the async handlers suspended at an await
  timers,         \* per hook: the pending setTimeout callbacks of user-joined
  emitted,        \* the messages the last hook step passed to socket.emit
  hookEv,         \* the event the last hook step processed
  nSteps,         \* number of steps the hooks have taken so far
  inbox,          \* per hook: server messages not yet handled by the hook
  upstream        \* per hook: emitted messages not yet handled by the server

serverVars == <<rooms, status, socketRoomId, socketUserName, adapterRooms,
                ev, sent, initiatorTold, console, nEvents>>
hookVars == <<hook, pcs, tasks, timers, emitted, hookEv, nSteps>>
netVars == <<inbox, upstream>>

vars == <<rooms, status, socketRoomId, socketUserName, adapterRooms,
          ev, sent, initiatorTold, console, nEvents,
          hook, pcs, tasks, timers, emitted, hookEv, nSteps, inbox, upstream>>

Event(type, conn, arg, extra) ==
  [type |-> type, conn |-> conn, arg |-> arg, extra |-> extra]

Msg(to, type, data) == [to |-> to, type |-> type, data |-> data]

(***************************************************************************)
(* Helpers of the handlers.                                                *)
(***************************************************************************)
\* the values Math.random().toString(36).substr(2, 9) can take
generateRoomId == RoomIds

\* rooms.get(roomId) is undefined
RoomMissing(roomId) == roomId \notin DOMAIN rooms

UserIds(users) == {users[i].id : i \in 1..Len(users)}

\* mutant: the duplicate check never finds the socket
ExistingUser_Never(users, id) == FALSE

\* room.users.find(user => user.id === socket.id)
ExistingUser(users, id) == \E i \in 1..Len(users) : users[i].id = id

\* mutant: the capacity test is off by one (length > 2)
RoomIsFull_OffByOne(users) == Len(users) > MaxUsers

\* room.users.length >= 2
RoomIsFull(users) == Len(users) >= MaxUsers

DefaultName(n) ==
  CASE n = 1 -> "User 1" [] n = 2 -> "User 2" [] OTHER -> "User n"

\* { id: socket.id, name: userName || `User ${room.users.length + 1}` }
NewUser(id, userName, users) ==
  [id |-> id, name |-> IF userName # None THEN userName
                                          ELSE DefaultName(Len(users) + 1)]

\* room.users.filter(user => user.id !== socket.id)
RemoveUser(users, id) == SelectSeq(users, LAMBDA u : u.id # id)

\* mutant: the clean-up of empty rooms never runs
RoomIsEmpty_Never(users) == FALSE

\* room.users.length === 0
RoomIsEmpty(users) == Len(users) = 0

\* socket.to(target): the connected sockets in socket.io room `target`,
\* the sender excepted
To(sender, target) ==
  {d \in Conns : status[d] = "connected" /\ target \in adapterRooms[d]} \ {sender}

Emit(sender, target, type, data) ==
  {Msg(d, type, data) : d \in To(sender, target)}

\* isInitiator of the two room-joined replies
IsInitiatorExisting(users, id) == users[1].id = id
\* mutant: every new user is told it is the initiator
IsInitiatorNew_Always(users) == TRUE
IsInitiatorNew(users) == Len(users) = 1

Told(b) == IF b THEN "true" ELSE "false"

\* initiatorTold is kept for the listed users of the live rooms only
Listed(c, r, rs) == r \in DOMAIN rs /\ c \in UserIds(rs[r])
Forget(told, rs) ==
  [c \in Conns |-> [r \in RoomIds |->
     IF Listed(c, r, rs) THEN told[c][r] ELSE "none"]]

Log(text, arg) == [text |-> text, arg |-> arg]

(***************************************************************************)
(* Initial state: no room, no socket connected yet.                        *)
(***************************************************************************)
ServerInit ==
  /\ rooms = <<>>
  /\ status = [c \in Conns |-> "new"]
  /\ socketRoomId = [c \in Conns |-> None]
  /\ socketUserName = [c \in Conns |-> None]
  /\ adapterRooms = [c \in Conns |-> {}]
  /\ ev = Event("init", None, None, None)
  /\ sent = {}
  /\ initiatorTold = [c \in Conns |-> [r \in RoomIds |-> "none"]]
  /\ console = <<>>
  /\ nEvents = 0

(***************************************************************************)
(* io.on('connection'): a new socket; socket.io puts it in the room named  *)
(* by its own id.                                                          *)
(***************************************************************************)
\* one more event is taken off the event loop
Handled ==
  /\ nEvents < MaxEvents
  /\ nEvents' = nEvents + 1

\* socket ids are fresh random strings: the sockets connect in pool order
NextSocketId == SocketIdPool[Cardinality({d \in Conns : status[d] # "new"}) + 1]

Connection(c) ==
  /\ Handled
  /\ status[c] = "new"
  /\ c = NextSocketId
  /\ status' = [status EXCEPT ![c] = "connected"]
  /\ adapterRooms' = [adapterRooms EXCEPT ![c] = {c}]
  /\ ev' = Event("connection", c, None, None)
  /\ sent' = {}
  /\ console' = <<Log("User connected:", c)>>
  /\ UNCHANGED <<rooms, socketRoomId, socketUserName, initiatorTold>>

(***************************************************************************)
(* socket.on('create-room')                                                *)
(***************************************************************************)
CreateRoom(c, roomId) ==
  /\ Handled
  /\ status[c] = "connected"
  /\ rooms' = [r \in DOMAIN rooms \cup {roomId} |->
                 IF r = roomId THEN <<>> ELSE rooms[r]]
  /\ ev' = Event("create-room", c, roomId, None)
  /\ sent' = {Msg(c, "create-room-ack", [roomId |-> roomId])}
  /\ console' = <<Log("Room created:", roomId)>>
  /\ initiatorTold' = Forget(initiatorTold, rooms')
  /\ UNCHANGED <<status, socketRoomId, socketUserName, adapterRooms>>

(***************************************************************************)
(* socket.on('join-room')                                                  *)
(***************************************************************************)
\* mutant: joining an unknown room creates it
JoinRoomNotFound_AutoCreate(c, roomId) ==
  /\ rooms' = [r \in DOMAIN rooms \cup {roomId} |->
                 IF r = roomId THEN <<>> ELSE rooms[r]]
  /\ sent' = {Msg(c, "error", [message |-> "Room not found"])}
  /\ console' = <<>>
  /\ UNCHANGED <<socketRoomId, socketUserName, adapterRooms, initiatorTold>>

JoinRoomNotFound(c, roomId) ==
  /\ sent' = {Msg(c, "error", [message |-> "Room not found"])}
  /\ console' = <<>>
  /\ UNCHANGED <<rooms, socketRoomId, socketUserName, adapterRooms,
                 initiatorTold>>

JoinRoomExisting(c, roomId) ==
  /\ console' = <<Log("already in room", roomId)>>
  /\ sent' = {Msg(c, "room-joined",
                  [roomId |-> roomId, users |-> rooms[roomId],
                   isInitiator |-> IsInitiatorExisting(rooms[roomId], c)])}
  /\ initiatorTold' = [initiatorTold EXCEPT
       ![c][roomId] = Told(IsInitiatorExisting(rooms[roomId], c))]
  /\ UNCHANGED <<rooms, socketRoomId, socketUserName, adapterRooms>>

JoinRoomFull(c, roomId) ==
  /\ sent' = {Msg(c, "error", [message |-> "Room is full"])}
  /\ console' = <<>>
  /\ UNCHANGED <<rooms, socketRoomId, socketUserName, adapterRooms,
                 initiatorTold>>

JoinRoomAdd(c, roomId, userName) ==
  LET user  == NewUser(c, userName, rooms[roomId])
      users == Append(rooms[roomId], user)
  IN /\ rooms' = [rooms EXCEPT ![roomId] = users]
     /\ adapterRooms' = [adapterRooms EXCEPT ![c] = @ \cup {roomId}]
     /\ socketRoomId' = [socketRoomId EXCEPT ![c] = roomId]
     /\ socketUserName' = [socketUserName EXCEPT ![c] = user.name]
     /\ console' = <<Log("joined room", roomId)>>
     /\ sent' = Emit(c, roomId, "user-joined",
                     [userId |-> c, userName |-> user.name,
                      usersCount |-> Len(users)])
                \cup {Msg(c, "room-joined",
                          [roomId |-> roomId, users |-> users,
                           isInitiator |-> IsInitiatorNew(users)])}
     /\ initiatorTold' = [initiatorTold EXCEPT
          ![c][roomId] = Told(IsInitiatorNew(users))]

JoinRoom(c, roomId, userName) ==
  /\ Handled
  /\ status[c] = "connected"
  /\ ev' = Event("join-room", c, roomId, userName)
  /\ UNCHANGED status
  /\ IF RoomMissing(roomId) THEN JoinRoomNotFound(c, roomId)
     ELSE IF ExistingUser(rooms[roomId], c) THEN JoinRoomExisting(c, roomId)
     ELSE IF RoomIsFull(rooms[roomId]) THEN JoinRoomFull(c, roomId)
     ELSE JoinRoomAdd(c, roomId, userName)

(***************************************************************************)
(* socket.on('offer' | 'answer' | 'ice-candidate'): the relay              *)
(***************************************************************************)
\* mutant: the senderId of the request, when it has one, is passed on
SenderId_FromRequest(c, claimed) == IF claimed # None THEN claimed ELSE c

\* senderId: socket.id
SenderId(c, claimed) == c

Relay(c, kind, payload, targetId, claimed) ==
  /\ Handled
  /\ status[c] = "connected"
  /\ ev' = Event(kind, c, targetId, <<payload, claimed>>)
  /\ sent' = Emit(c, targetId, kind,
                  [payload |-> payload, senderId |-> SenderId(c, claimed)])
  /\ console' = <<>>
  /\ UNCHANGED <<rooms, status, socketRoomId, socketUserName, adapterRooms,
                 initiatorTold>>

(***************************************************************************)
(* socket.on('user-status')                                                *)
(***************************************************************************)
UserStatus(c, st) ==
  /\ Handled
  /\ status[c] = "connected"
  /\ ev' = Event("user-status", c, None, st)
  /\ console' = <<>>
  /\ sent' = IF socketRoomId[c] # None
               THEN Emit(c, socketRoomId[c], "user-status-update",
                         [userId |-> c, status |-> st])
               ELSE {}
  /\ UNCHANGED <<rooms, status, socketRoomId, socketUserName, adapterRooms,
                 initiatorTold>>

(***************************************************************************)
(* socket.on('disconnect'): socket.io has taken the socket out of all its  *)
(* rooms before the handler runs.                                          *)
(***************************************************************************)
Disconnect(c) ==
  /\ Handled
  /\ status[c] = "connected"
  /\ status' = [status EXCEPT ![c] = "disconnected"]
  /\ adapterRooms' = [adapterRooms EXCEPT ![c] = {}]
  /\ ev' = Event("disconnect", c, socketRoomId[c], None)
  \* the socket object is discarded with its roomId and userName
  /\ socketRoomId' = [socketRoomId EXCEPT ![c] = None]
  /\ socketUserName' = [socketUserName EXCEPT ![c] = None]
  /\ IF socketRoomId[c] # None /\ ~RoomMissing(socketRoomId[c])
       THEN LET roomId == socketRoomId[c]
                users  == RemoveUser(rooms[roomId], c)
            IN /\ sent' = Emit(c, roomId, "user-left",
                               [userId |-> c, userName |-> socketUserName[c],
                                usersCount |-> Len(users)])
               /\ IF RoomIsEmpty(users)
                    THEN /\ rooms' = [r \in DOMAIN rooms \ {roomId} |-> rooms[r]]
                         /\ console' = <<Log("User disconnected:", c),
                                         Log("Room deleted:", roomId)>>
                    ELSE /\ rooms' = [rooms EXCEPT ![roomId] = users]
                         /\ console' = <<Log("User disconnected:", c)>>
       ELSE /\ sent' = {}
            /\ console' = <<Log("User disconnected:", c)>>
            /\ UNCHANGED rooms
  /\ initiatorTold' = Forget(initiatorTold, rooms')

(***************************************************************************)
(* The client hook useWebRTC (src/Backend/useWebRTC.ts).  The browser runs *)
(* every socket handler, timer callback and promise continuation to        *)
(* completion, so each is one atomic action; an async handler suspended at *)
(* an await is a task that a later Settle step resumes.                    *)
(***************************************************************************)
\* steps the hooks take in one run
MaxSteps == 8
\* peer connections one hook creates in one run
MaxPcs == 2
\* async handlers of one hook suspended at an await at the same time
MaxTasks == 2
\* candidates one peer connection gathers
MaxCandidates == 1

\* the sockets whose client is the hook
Hooks == {SocketIdPool[2], SocketIdPool[3]}
\* the sockets a hook hears of in senderId and userId: the other hook and
\* one more client
Peers(h) == (Hooks \cup {SocketIdPool[1]}) \ {h}

\* peerConnectionRef.current === null
NoPc == 0

\* new RTCPeerConnection(configuration)
NewPc ==
  [signalingState |-> "stable", localDescription |-> None,
   remoteDescription |-> None, remoteFrom |-> None, offeredTo |-> None,
   connectionState |-> "new", candidates |-> {}, gathered |-> 0,
   videoSender |-> None]

\* a peer connection after close()
ClosedPc ==
  [signalingState |-> "closed", localDescription |-> None,
   remoteDescription |-> None, remoteFrom |-> None, offeredTo |-> None,
   connectionState |-> "closed", candidates |-> {}, gathered |-> 0,
   videoSender |-> None]

ConnectionStates == {"connecting", "connected", "disconnected", "failed"}
\* the messages of the error events the server sends
ErrorMessages == {"Room not found", "Room is full"}

HookEvent(type, h, arg, pc, fn, op) ==
  [type |-> type, hook |-> h, arg |-> arg, pc |-> pc, fn |-> fn, op |-> op]

\* socket.emit(type, {..., targetId}); re and pc record which offer an answer
\* was made for and which peer connection the message comes from
Emitted(type, targetId, re, pc) ==
  [type |-> type, targetId |-> targetId, payload |-> "sdp", re |-> re, pc |-> pc]

Task(fn, op, pc, arg, desc) ==
  [fn |-> fn, op |-> op, pc |-> pc, arg |-> arg, desc |-> desc]

Ref(h) == hook[h].peerConnectionRef
IsOpen(h, p) == pcs[h][p].signalingState # "closed"
\* socketRef.current is set by initializeSocket
SocketRef(h) == hook[h].phase \in {"socket", "started"}

\* if (!peerConnectionRef.current) createPeerConnection()
CanEnsurePc(h) == Ref(h) # NoPc \/ Len(pcs[h]) < MaxPcs
\* createPeerConnection adds the tracks of localStreamRef.current, if any:
\* the video sender carries the camera track
CreatedPc(h) == [NewPc EXCEPT !.videoSender = hook[h].localStreamRef]
EnsuredPcs(h) ==
  IF Ref(h) = NoPc THEN Append(pcs[h], CreatedPc(h)) ELSE pcs[h]
EnsuredRef(h) == IF Ref(h) = NoPc THEN Len(pcs[h]) + 1 ELSE Ref(h)

\* the type of the description a task passes to setLocal/RemoteDescription
DescType(t) ==
  CASE t.fn = "createOffer" -> "offer"
    [] t.fn = "handleOffer" /\ t.op = "setRemoteDescription" -> "offer"
    [] t.fn = "handleOffer" -> "answer"
    [] OTHER -> "answer"

\* the signaling states in which the browser accepts the operation
\* (RTCPeerConnection; a remote offer in have-local-offer rolls the local
\* offer back in browsers that implement it, and is rejected in the others)
Valid(pc, t) ==
  CASE t.op = "createOffer" ->
         pc.signalingState \in {"stable", "have-local-offer"}
    [] t.op = "createAnswer" -> pc.signalingState = "have-remote-offer"
    [] t.op = "setLocalDescription" ->
         IF DescType(t) = "offer"
           THEN pc.signalingState \in {"stable", "have-local-offer"}
           ELSE pc.signalingState = "have-remote-offer"
    [] t.op = "setRemoteDescription" ->
         IF DescType(t) = "offer"
           THEN pc.signalingState \in
                  {"stable", "have-remote-offer", "have-local-offer"}
           ELSE pc.signalingState = "have-local-offer"
    [] OTHER -> pc.remoteDescription # None

\* the peer connection after the operation has succeeded
Applied(pc, t) ==
  CASE t.op = "setLocalDescription" /\ DescType(t) = "offer" ->
         [pc EXCEPT !.signalingState = "have-local-offer",
                    !.localDescription = "offer", !.offeredTo = t.arg]
    [] t.op = "setLocalDescription" ->
         [pc EXCEPT !.signalingState = "stable", !.localDescription = "answer"]
    [] t.op = "setRemoteDescription" /\ DescType(t) = "offer" ->
         [pc EXCEPT !.signalingState = "have-remote-offer",
                    !.remoteDescription = "offer", !.remoteFrom = t.arg,
                    !.localDescription =
                       IF pc.signalingState = "have-local-offer" THEN None ELSE @,
                    !.offeredTo =
                       IF pc.signalingState = "have-local-offer" THEN None ELSE @]
    [] t.op = "setRemoteDescription" ->
         [pc EXCEPT !.signalingState = "stable",
                    !.remoteDescription = "answer", !.remoteFrom = t.arg]
    [] t.op = "addIceCandidate" ->
         [pc EXCEPT !.candidates = @ \cup {t.arg}]
    [] OTHER -> pc

\* the operation an async handler awaits after `t.op` has resolved
NextOp(t) ==
  CASE t.fn = "createOffer" /\ t.op = "createOffer" -> "setLocalDescription"
    [] t.fn = "handleOffer" /\ t.op = "setRemoteDescription" -> "createAnswer"
    [] t.fn = "handleOffer" /\ t.op = "createAnswer" -> "setLocalDescription"
    [] OTHER -> None

Without(ts, i) ==
  [j \in 1..(Len(ts) - 1) |-> IF j < i THEN ts[j] ELSE ts[j + 1]]

\* a promise of a peer connection that has been closed never settles: its
\* task is never resumed
StillAwaited(ts, ps) ==
  SelectSeq(ts, LAMBDA t : ps[t.pc].signalingState # "closed")

HookInit ==
  /\ hook = [h \in Hooks |->
              [phase |-> "media", localStreamRef |-> None,
               peerConnectionRef |-> NoPc, remoteStream |-> NoPc,
               currentRoomIdRef |-> None, users |-> <<>>,
               connectionStatus |-> "Getting camera access...",
               isAudioEnabled |-> TRUE, isVideoEnabled |-> TRUE,
               isScreenSharing |-> FALSE,
               audioEnabled |-> TRUE, videoEnabled |-> TRUE,
               screenTracks |-> 0, awaited |-> <<>>, departed |-> {}]]
  /\ pcs = [h \in Hooks |-> <<>>]
  /\ tasks = [h \in Hooks |-> <<>>]
  /\ timers = [h \in Hooks |-> {}]
  /\ emitted = {}
  /\ hookEv = HookEvent("mount", None, None, NoPc, None, None)
  /\ inbox = [h \in Hooks |-> <<>>]
  /\ upstream = [h \in Hooks |-> <<>>]
  /\ nSteps = 0

\* one more callback is taken off the browser's event loop
Stepped ==
  /\ nSteps < MaxSteps
  /\ nSteps' = nSteps + 1

\* error.message of a rejected getUserMedia
MediaErrors == {"Permission denied", "NotFoundError", "Could not start video source"}

\* the catch block of initializeMedia: what it passes to onLeaveRoomWithError
LeaveMessage(error) ==
  CASE error = "Permission denied" ->
         "Camera access denied. Please allow camera permissions and try again."
    [] error = "NotFoundError" ->
         "No camera found. Please connect a camera and try again."
    [] OTHER -> "Media access failed: "

\* mutant: initialize goes on after a failed initializeMedia
AfterMedia_GoesOn(error) == "socket"

\* initialize after `await initializeMedia()`: initializeMedia throws its
\* error again, and the catch block of initialize only logs it
AfterMedia(error) == IF error = None THEN "socket" ELSE "failed"

\* the hook after initializeMedia has got a stream: its tracks are enabled
WithMedia(h) ==
  [hook[h] EXCEPT !.localStreamRef = "camera",
                  !.audioEnabled = TRUE, !.videoEnabled = TRUE,
                  !.connectionStatus = "Media ready"]

(***************************************************************************)
(* initialize(): await initializeMedia(), then initializeSocket() and the  *)
(* timer that creates or joins the room.  A failure of getUserMedia is     *)
(* reported through onLeaveRoomWithError and ends initialize.              *)
(***************************************************************************)
MediaSettled(h, error) ==
  /\ Stepped
  /\ hook[h].phase = "media"
  /\ hook' = [hook EXCEPT ![h] =
       IF error = None
         THEN [WithMedia(h) EXCEPT !.phase = AfterMedia(error),
                                   !.connectionStatus = "Connecting to server..."]
         ELSE [@ EXCEPT !.phase = AfterMedia(error)]]
  /\ hookEv' = IF error = None
                 THEN HookEvent("media", h, None, NoPc, "initializeMedia",
                                "getUserMedia")
                 ELSE HookEvent("media-error", h, LeaveMessage(error), NoPc,
                                "initializeMedia", "getUserMedia")
  /\ emitted' = {}
  /\ UNCHANGED <<pcs, tasks, timers>>

\* socket.on('connect'): the socket of a hook connects once, so this
\* callback is not counted in nSteps
OnConnect(h) ==
  /\ SocketRef(h)
  /\ UNCHANGED nSteps
  /\ hook' = [hook EXCEPT ![h].connectionStatus = "Connected to server"]
  /\ hookEv' = HookEvent("connect", h, None, NoPc, None, None)
  /\ emitted' = {}
  /\ UNCHANGED <<pcs, tasks, timers>>

\* setTimeout(() => { if (shouldCreateNewRoom) createRoom()
\*                    else if (roomId) joinRoom(roomId) }, 1000)
InitTimer(h, shouldCreateNewRoom, roomId) ==
  /\ Stepped
  /\ hook[h].phase = "socket"
  /\ hook' = [hook EXCEPT ![h].phase = "started",
                          ![h].connectionStatus =
                             IF shouldCreateNewRoom THEN "Creating room..."
                             ELSE IF roomId # None THEN "Joining room..."
                             ELSE @]
  /\ hookEv' = HookEvent("init-timer", h,
                         IF shouldCreateNewRoom THEN None ELSE roomId,
                         NoPc, None, None)
  /\ emitted' = IF shouldCreateNewRoom
                  THEN {Emitted("create-room", None, None, NoPc)}
                  ELSE IF roomId # None
                         THEN {Emitted("join-room", roomId, None, NoPc)}
                         ELSE {}
  /\ UNCHANGED <<pcs, tasks, timers>>

\* the acknowledgement callback of create-room
OnRoomCreated(h, roomId) ==
  /\ Stepped
  /\ hook[h].phase = "started"
  /\ hook' = [hook EXCEPT ![h].currentRoomIdRef = roomId]
  /\ hookEv' = HookEvent("create-room-ack", h, roomId, NoPc, None, None)
  /\ emitted' = {}
  /\ UNCHANGED <<pcs, tasks, timers>>

(***************************************************************************)
(* The socket handlers initializeSocket registers.                         *)
(***************************************************************************)
OnRoomJoined(h, roomId, roomUsers) ==
  /\ Stepped
  /\ SocketRef(h)
  /\ hook' = [hook EXCEPT ![h].currentRoomIdRef = roomId,
                          ![h].users = roomUsers,
                          ![h].connectionStatus = "Connected to room"]
  /\ hookEv' = HookEvent("room-joined", h, roomId, NoPc, None, None)
  /\ emitted' = {}
  /\ UNCHANGED <<pcs, tasks, timers>>

\* socket.on('error'): the message goes to onLeaveRoomWithError
OnError(h, message) ==
  /\ Stepped
  /\ SocketRef(h)
  /\ hookEv' = HookEvent("error", h, message, NoPc, None, None)
  /\ emitted' = {}
  /\ UNCHANGED <<hook, pcs, tasks, timers>>

\* the handler only arms the timer.  `departed` keeps, for the record, the
\* users whose user-left was handled while their timer is pending.
OnUserJoined(h, userId) ==
  /\ Stepped
  /\ SocketRef(h)
  /\ userId \notin timers[h]
  /\ timers' = [timers EXCEPT ![h] = @ \cup {userId}]
  /\ hook' = [hook EXCEPT ![h].connectionStatus = "joined the call"]
  /\ hookEv' = HookEvent("user-joined", h, userId, NoPc, None, None)
  /\ emitted' = {}
  /\ UNCHANGED <<pcs, tasks>>

\* if (peerConnectionRef.current && localStreamRef.current)
OfferGuard(h) == Ref(h) # NoPc /\ hook[h].localStreamRef # None

\* the timer callback of user-joined: createOffer(userId) up to its first
\* await
UserJoinedTimer(h, userId) ==
  /\ Stepped
  /\ userId \in timers[h]
  /\ timers' = [timers EXCEPT ![h] = @ \ {userId}]
  /\ hookEv' = HookEvent("user-joined-timer", h, userId, Ref(h), None, None)
  /\ emitted' = {}
  /\ IF OfferGuard(h)
       THEN /\ CanEnsurePc(h)
            /\ Len(tasks[h]) < MaxTasks
            /\ pcs' = [pcs EXCEPT ![h] = EnsuredPcs(h)]
            /\ hook' = [hook EXCEPT ![h].peerConnectionRef = EnsuredRef(h),
                                    ![h].departed = @ \ {userId}]
            /\ tasks' = [tasks EXCEPT ![h] =
                 Append(@, Task("createOffer", "createOffer", EnsuredRef(h),
                                userId, None))]
       ELSE /\ hook' = [hook EXCEPT ![h].departed = @ \ {userId}]
            /\ UNCHANGED <<pcs, tasks>>

\* mutant: user-left leaves the peer connection as it is
LeftPcs_KeepOpen(h) == pcs[h]

\* peerConnectionRef.current.close()
LeftPcs(h) ==
  IF Ref(h) # NoPc THEN [pcs[h] EXCEPT ![Ref(h)] = ClosedPc] ELSE pcs[h]

OnUserLeft(h, userId) ==
  /\ Stepped
  /\ SocketRef(h)
  /\ hook' = [hook EXCEPT ![h].remoteStream = NoPc,
                          ![h].peerConnectionRef = NoPc,
                          ![h].connectionStatus = "Other participant left",
                          ![h].departed =
                             IF userId \in timers[h] THEN @ \cup {userId}
                             ELSE @]
  /\ pcs' = [pcs EXCEPT ![h] = LeftPcs(h)]
  /\ tasks' = [tasks EXCEPT ![h] = StillAwaited(@, pcs'[h])]
  /\ hookEv' = HookEvent("user-left", h, userId, Ref(h), None, None)
  /\ emitted' = {}
  /\ UNCHANGED timers

\* handleOffer(offer, senderId) up to its first await
OnOffer(h, senderId) ==
  /\ Stepped
  /\ SocketRef(h)
  /\ CanEnsurePc(h)
  /\ Len(tasks[h]) < MaxTasks
  /\ pcs' = [pcs EXCEPT ![h] = EnsuredPcs(h)]
  /\ hook' = [hook EXCEPT ![h].peerConnectionRef = EnsuredRef(h)]
  /\ tasks' = [tasks EXCEPT ![h] =
       Append(@, Task("handleOffer", "setRemoteDescription", EnsuredRef(h),
                      senderId, None))]
  /\ hookEv' = HookEvent("offer", h, senderId, EnsuredRef(h), None, None)
  /\ emitted' = {}
  /\ UNCHANGED timers

\* handleAnswer(answer) up to its await: nothing without a peer connection.
\* The task keeps, for the record, the signaling state in which the answer
\* came.
OnAnswer(h, senderId) ==
  /\ Stepped
  /\ SocketRef(h)
  /\ IF Ref(h) # NoPc
       THEN /\ Len(tasks[h]) < MaxTasks
            /\ tasks' = [tasks EXCEPT ![h] =
                 Append(@, Task("handleAnswer", "setRemoteDescription", Ref(h),
                                senderId, pcs[h][Ref(h)].signalingState))]
       ELSE UNCHANGED tasks
  /\ hookEv' = HookEvent("answer", h, senderId, Ref(h), None, None)
  /\ emitted' = {}
  /\ UNCHANGED <<hook, pcs, timers>>

\* handleIceCandidate(candidate) up to its await: nothing without a peer
\* connection
OnIceCandidate(h, senderId) ==
  /\ Stepped
  /\ SocketRef(h)
  /\ IF Ref(h) # NoPc
       THEN /\ Len(tasks[h]) < MaxTasks
            /\ tasks' = [tasks EXCEPT ![h] =
                 Append(@, Task("handleIceCandidate", "addIceCandidate", Ref(h),
                                senderId, None))]
       ELSE UNCHANGED tasks
  /\ hookEv' = HookEvent("ice-candidate", h, senderId, Ref(h), None, None)
  /\ emitted' = {}
  /\ UNCHANGED <<hook, pcs, timers>>

(***************************************************************************)
(* An awaited operation of a peer connection settles and the handler runs  *)
(* on to its next await or to its end.  The operations of one connection   *)
(* settle in the order they were called; a rejection ends the handler in   *)
(* its catch block.  Every call reads peerConnectionRef.current again.     *)
(***************************************************************************)
Settle(h, i, ok) ==
  /\ Stepped
  /\ i \in 1..Len(tasks[h])
  /\ LET t    == tasks[h][i]
         pc   == pcs[h][t.pc]
         rest == Without(tasks[h], i)
         next == NextOp(t)
     IN /\ pc.signalingState # "closed"
        /\ \A j \in 1..(i - 1) : tasks[h][j].pc # t.pc
        /\ ok => Valid(pc, t)
        /\ hookEv' = HookEvent(IF ok THEN "resolved" ELSE "rejected", h, t.arg,
                               t.pc, t.fn, t.op)
        /\ pcs' = [pcs EXCEPT ![h][t.pc] = IF ok THEN Applied(pc, t) ELSE pc]
        /\ tasks' = [tasks EXCEPT ![h] =
             IF ok /\ next # None /\ Ref(h) # NoPc
               THEN Append(rest,
                      Task(t.fn, next, Ref(h), t.arg,
                           IF t.op = "createAnswer" THEN pc.remoteFrom ELSE t.desc))
               ELSE rest]
        /\ emitted' =
             IF ok /\ next = None /\ t.op = "setLocalDescription" /\ SocketRef(h)
               THEN {Emitted(DescType(t), t.arg, t.desc, t.pc)}
               ELSE {}
  /\ UNCHANGED <<hook, timers>>

(***************************************************************************)
(* The event handlers createPeerConnection sets on the peer connection.    *)
(***************************************************************************)
\* targetId: 'broadcast'
CandidateTarget(pc) == "broadcast"

\* onicecandidate: gathering starts when a local description is set; the
\* event without a candidate ends it
OnIceCandidateEvent(h, p, candidate) ==
  /\ Stepped
  /\ p \in 1..Len(pcs[h])
  /\ IsOpen(h, p)
  /\ pcs[h][p].localDescription # None
  /\ pcs[h][p].gathered < MaxCandidates
  /\ pcs' = [pcs EXCEPT ![h][p].gathered = @ + 1]
  /\ hookEv' = HookEvent("icecandidate", h, candidate, p, None, None)
  /\ emitted' = IF candidate # None /\ SocketRef(h)
                  THEN {Emitted("ice-candidate", CandidateTarget(pcs[h][p]),
                                None, p)}
                  ELSE {}
  /\ UNCHANGED <<hook, tasks, timers>>

\* ontrack: setRemoteStream(remoteStream)
OnTrack(h, p) ==
  /\ Stepped
  /\ p \in 1..Len(pcs[h])
  /\ IsOpen(h, p)
  /\ pcs[h][p].remoteDescription # None
  /\ hook' = [hook EXCEPT ![h].remoteStream = p,
                          ![h].connectionStatus = "Video call active"]
  /\ hookEv' = HookEvent("track", h, None, p, None, None)
  /\ emitted' = {}
  /\ UNCHANGED <<pcs, tasks, timers>>

\* onconnectionstatechange: only the status text is set
OnConnectionStateChange(h, p, state) ==
  /\ Stepped
  /\ p \in 1..Len(pcs[h])
  /\ IsOpen(h, p)
  /\ pcs[h][p].localDescription # None
  /\ pcs[h][p].remoteDescription # None
  /\ pcs[h][p].connectionState # state
  /\ pcs' = [pcs EXCEPT ![h][p].connectionState = state]
  /\ hook' = [hook EXCEPT ![h].connectionStatus =
       CASE state = "connected" -> "Video call connected"
         [] state = "disconnected" -> "Call disconnected"
         [] OTHER -> @]
  /\ hookEv' = HookEvent("connectionstatechange", h, state, p, None, None)
  /\ emitted' = {}
  /\ UNCHANGED <<tasks, timers>>

(***************************************************************************)
(* The controls the hook returns: toggleAudio, toggleVideo and             *)
(* toggleScreenShare.  toggleScreenShare and initializeMedia wait for the  *)
(* browser's media calls; these waits are kept in `awaited` and settle in  *)
(* any order.                                                              *)
(***************************************************************************)
\* screen tracks captured and not ended at the same time
MaxScreens == 1

Wait(fn, op, pc) == [fn |-> fn, op |-> op, pc |-> pc]

\* if (localStreamRef.current) { track.enabled = !track.enabled;
\*                               setIsAudioEnabled(!isAudioEnabled) }
ToggleAudio(h) ==
  /\ Stepped
  /\ hook' = IF hook[h].localStreamRef # None
               THEN [hook EXCEPT ![h].audioEnabled = ~@,
                                 ![h].isAudioEnabled = ~@]
               ELSE hook
  /\ hookEv' = HookEvent("toggle-audio", h, None, NoPc, "toggleAudio", None)
  /\ emitted' = {}
  /\ UNCHANGED <<pcs, tasks, timers>>

ToggleVideo(h) ==
  /\ Stepped
  /\ hook' = IF hook[h].localStreamRef # None
               THEN [hook EXCEPT ![h].videoEnabled = ~@,
                                 ![h].isVideoEnabled = ~@]
               ELSE hook
  /\ hookEv' = HookEvent("toggle-video", h, None, NoPc, "toggleVideo", None)
  /\ emitted' = {}
  /\ UNCHANGED <<pcs, tasks, timers>>

\* toggleScreenShare up to its first await: getDisplayMedia when not
\* sharing; otherwise setIsScreenSharing(false) and initializeMedia()
ToggleScreenShare(h) ==
  /\ Stepped
  /\ Len(hook[h].awaited) < MaxTasks
  /\ hook' = IF ~hook[h].isScreenSharing
               THEN [hook EXCEPT ![h].awaited =
                       Append(@, Wait("toggleScreenShare", "getDisplayMedia",
                                      NoPc))]
               ELSE [hook EXCEPT ![h].isScreenSharing = FALSE,
                                 ![h].connectionStatus =
                                    "Getting camera access...",
                                 ![h].awaited =
                       Append(@, Wait("toggleScreenShare", "getUserMedia",
                                      NoPc))]
  /\ hookEv' = HookEvent("toggle-screen-share", h, hook[h].isScreenSharing,
                         Ref(h), "toggleScreenShare", None)
  /\ emitted' = {}
  /\ UNCHANGED <<pcs, tasks, timers>>

\* the sender getSenders().find(s => s.track && s.track.kind === 'video')
\* finds in peerConnectionRef.current
HasVideoSender(h) ==
  /\ Ref(h) # NoPc
  /\ hook[h].localStreamRef # None
  /\ pcs[h][Ref(h)].videoSender # None

\* setIsScreenSharing(true) and the onended handler of the screen track
Sharing(r) == [r EXCEPT !.isScreenSharing = TRUE, !.screenTracks = @ + 1]

\* mutant: replaceTrack starts a negotiation
Replaced_Negotiates(pc) ==
  [pc EXCEPT !.videoSender = "screen", !.signalingState = "have-local-offer"]

\* sender.replaceTrack(videoTrack) has resolved
Replaced(pc) == [pc EXCEPT !.videoSender = "screen"]

\* getDisplayMedia settles: the user picks a screen, or cancels
DisplaySettled(h, i, ok) ==
  /\ Stepped
  /\ i \in 1..Len(hook[h].awaited)
  /\ hook[h].awaited[i].op = "getDisplayMedia"
  /\ ok => hook[h].screenTracks < MaxScreens
  /\ LET rest == Without(hook[h].awaited, i)
     IN hook' = [hook EXCEPT ![h] =
          IF ~ok THEN [@ EXCEPT !.awaited = rest]
          ELSE IF HasVideoSender(h)
            THEN [@ EXCEPT !.awaited =
                    Append(rest, Wait("toggleScreenShare", "replaceTrack",
                                      Ref(h)))]
            ELSE Sharing([@ EXCEPT !.awaited = rest])]
  /\ hookEv' = HookEvent(IF ok THEN "resolved" ELSE "rejected", h, None, Ref(h),
                         "toggleScreenShare", "getDisplayMedia")
  /\ emitted' = {}
  /\ UNCHANGED <<pcs, tasks, timers>>

\* replaceTrack settles; a closed peer connection rejects it
ReplaceSettled(h, i, ok) ==
  /\ Stepped
  /\ i \in 1..Len(hook[h].awaited)
  /\ hook[h].awaited[i].op = "replaceTrack"
  /\ LET w    == hook[h].awaited[i]
         rest == Without(hook[h].awaited, i)
     IN /\ ok => IsOpen(h, w.pc) /\ hook[h].screenTracks < MaxScreens
        /\ pcs' = [pcs EXCEPT ![h][w.pc] = IF ok THEN Replaced(@) ELSE @]
        /\ hook' = [hook EXCEPT ![h] =
             IF ok THEN Sharing([@ EXCEPT !.awaited = rest])
                   ELSE [@ EXCEPT !.awaited = rest]]
        /\ hookEv' = HookEvent(IF ok THEN "resolved" ELSE "rejected", h, None,
                               w.pc, "toggleScreenShare", "replaceTrack")
  /\ emitted' = {}
  /\ UNCHANGED <<tasks, timers>>

\* the getUserMedia of an initializeMedia() called to go back to the camera
\* settles
CameraSettled(h, i, error) ==
  /\ Stepped
  /\ i \in 1..Len(hook[h].awaited)
  /\ hook[h].awaited[i].op = "getUserMedia"
  /\ LET w    == hook[h].awaited[i]
         rest == Without(hook[h].awaited, i)
     IN /\ hook' = [hook EXCEPT ![h] =
             IF error = None THEN [WithMedia(h) EXCEPT !.awaited = rest]
                             ELSE [@ EXCEPT !.awaited = rest]]
        /\ hookEv' = IF error = None
                       THEN HookEvent("resolved", h, None, NoPc, w.fn,
                                      "getUserMedia")
                       ELSE HookEvent("rejected", h, LeaveMessage(error), NoPc,
                                      w.fn, "getUserMedia")
  /\ emitted' = {}
  /\ UNCHANGED <<pcs, tasks, timers>>

\* onended of a screen track: setIsScreenSharing(false); initializeMedia()
ScreenEnded(h) ==
  /\ Stepped
  /\ hook[h].screenTracks > 0
  /\ Len(hook[h].awaited) < MaxTasks
  /\ hook' = [hook EXCEPT ![h].screenTracks = @ - 1,
                          ![h].isScreenSharing = FALSE,
                          ![h].connectionStatus = "Getting camera access...",
                          ![h].awaited =
                             Append(@, Wait("onended", "getUserMedia", NoPc))]
  /\ hookEv' = HookEvent("screen-ended", h, None, Ref(h), "onended", None)
  /\ emitted' = {}
  /\ UNCHANGED <<pcs, tasks, timers>>

\* the server has started and the hooks have mounted
Init == ServerInit /\ HookInit

(***************************************************************************)
(* The server on its own: any client behaviour, the hooks left aside.      *)
(***************************************************************************)
Next ==
  \/ \E c \in Conns : Connection(c) /\ UNCHANGED <<hookVars, netVars>>
  \/ \E c \in Conns, roomId \in generateRoomId :
       CreateRoom(c, roomId) /\ UNCHANGED <<hookVars, netVars>>
  \/ \E c \in Conns, roomId \in RoomIds, userName \in UserNames :
       JoinRoom(c, roomId, userName) /\ UNCHANGED <<hookVars, netVars>>
  \/ \E c \in Conns, kind \in RelayKinds, payload \in Payloads,
        targetId \in TargetIds, claimed \in ClaimedSenderIds :
       Relay(c, kind, payload, targetId, claimed)
         /\ UNCHANGED <<hookVars, netVars>>
  \/ \E c \in Conns, st \in Statuses :
       UserStatus(c, st) /\ UNCHANGED <<hookVars, netVars>>
  \/ \E c \in Conns : Disconnect(c) /\ UNCHANGED <<hookVars, netVars>>

Spec == Init /\ [][Next]_vars

(***************************************************************************)
(* One hook on its own: the server may send it any message at any time,    *)
(* except that room-joined and error only answer the hook's join-room.     *)
(***************************************************************************)
HookClient == SocketIdPool[2]
\* the room id the hook is given and told of (it only stores it)
HookRoomId == RoomIdPool[1]

\* the users lists a room-joined can carry: the hook alone, or after the
\* other client
HookRoomUsers ==
  {<<NewUser(HookClient, "Bob", <<>>)>>,
   <<NewUser(SocketIdPool[1], None, <<>>), NewUser(HookClient, "Bob", <<>>)>>}

HookNext ==
  \/ \E error \in {None} \cup MediaErrors :
       MediaSettled(HookClient, error) /\ UNCHANGED <<serverVars, netVars>>
  \/ \E create \in BOOLEAN, roomId \in {None, HookRoomId} :
       InitTimer(HookClient, create, roomId)
         /\ UNCHANGED <<serverVars, netVars>>
  \/ OnRoomCreated(HookClient, HookRoomId) /\ UNCHANGED <<serverVars, netVars>>
  \/ \E roomUsers \in HookRoomUsers :
       /\ hook[HookClient].phase = "started"
       /\ OnRoomJoined(HookClient, HookRoomId, roomUsers)
       /\ UNCHANGED <<serverVars, netVars>>
  \/ \E message \in ErrorMessages :
       /\ hook[HookClient].phase = "started"
       /\ OnError(HookClient, message) /\ UNCHANGED <<serverVars, netVars>>
  \/ \E userId \in Peers(HookClient) :
       OnUserJoined(HookClient, userId) /\ UNCHANGED <<serverVars, netVars>>
  \/ \E userId \in Peers(HookClient) :
       UserJoinedTimer(HookClient, userId)
         /\ UNCHANGED <<serverVars, netVars>>
  \/ \E userId \in Peers(HookClient) :
       OnUserLeft(HookClient, userId) /\ UNCHANGED <<serverVars, netVars>>
  \/ \E senderId \in Peers(HookClient) :
       OnOffer(HookClient, senderId) /\ UNCHANGED <<serverVars, netVars>>
  \/ \E senderId \in Peers(HookClient) :
       OnAnswer(HookClient, senderId) /\ UNCHANGED <<serverVars, netVars>>
  \/ \E senderId \in Peers(HookClient) :
       OnIceCandidate(HookClient, senderId)
         /\ UNCHANGED <<serverVars, netVars>>
  \/ \E i \in 1..MaxTasks, ok \in BOOLEAN :
       Settle(HookClient, i, ok) /\ UNCHANGED <<serverVars, netVars>>
  \/ \E p \in 1..MaxPcs, candidate \in {None, "candidate"} :
       OnIceCandidateEvent(HookClient, p, candidate)
         /\ UNCHANGED <<serverVars, netVars>>
  \/ \E p \in 1..MaxPcs :
       OnTrack(HookClient, p) /\ UNCHANGED <<serverVars, netVars>>
  \/ \E p \in 1..MaxPcs, state \in ConnectionStates :
       OnConnectionStateChange(HookClient, p, state)
         /\ UNCHANGED <<serverVars, netVars>>

HookSpec == Init /\ [][HookNext]_vars

(***************************************************************************)
(* A call: the server, the two hooks and one other client.  What a hook    *)
(* emits waits in `upstream` until the server handles it, what the server  *)
(* sends to a hook waits in `inbox` until the hook handles it; a socket    *)
(* keeps the order of its messages.  Both hooks get their media and are    *)
(* given one room id to join; no socket of a hook disconnects and no         *)
(* operation of a peer connection is rejected that the browser can accept. *)
(***************************************************************************)
\* the userName prop of the hooks
CallUserName == "Bob"
\* the roomId prop of the hooks: both are given the same room id
CallRoomId == RoomIdPool[1]

\* the server's messages of the last handler reach the sockets of the hooks
Routed ==
  [h \in Hooks |->
     IF \E m \in sent' : m.to = h
       THEN Append(inbox[h], CHOOSE m \in sent' : m.to = h)
       ELSE inbox[h]]

\* socket.emit: what the last hook step emitted is on its way to the server
Queued ==
  [h \in Hooks |->
     IF hookEv'.hook = h /\ emitted' # {}
       THEN Append(upstream[h], CHOOSE m \in emitted' : TRUE)
       ELSE upstream[h]]

ServerSide == inbox' = Routed /\ UNCHANGED <<hookVars, upstream>>
HookSide == upstream' = Queued /\ UNCHANGED <<serverVars, inbox>>

\* io(...) in initializeSocket: the socket of the hook connects
Connects(h) ==
  /\ SocketRef(h)
  /\ Connection(h)
  /\ inbox' = [inbox EXCEPT ![h] = Append(@, Msg(h, "connect", None))]
  /\ UNCHANGED <<hookVars, upstream>>

\* the server handles the next message of the hook's socket
ServerTakes(h) ==
  /\ upstream[h] # <<>>
  /\ status[h] = "connected"
  /\ LET m == Head(upstream[h])
     IN \/ m.type = "join-room" /\ JoinRoom(h, m.targetId, CallUserName)
        \/ m.type \in RelayKinds /\ Relay(h, m.type, m.payload, m.targetId, None)
  /\ inbox' = Routed
  /\ upstream' = [upstream EXCEPT ![h] = Tail(@)]
  /\ UNCHANGED hookVars

\* the hook handles the next message of its socket; user-status-update has
\* no handler
Delivers(h) ==
  /\ inbox[h] # <<>>
  /\ LET m == Head(inbox[h])
     IN \/ m.type = "connect" /\ OnConnect(h)
        \/ m.type = "room-joined" /\ OnRoomJoined(h, m.data.roomId, m.data.users)
        \/ m.type = "error" /\ OnError(h, m.data.message)
        \/ m.type = "user-joined" /\ OnUserJoined(h, m.data.userId)
        \/ m.type = "user-left" /\ OnUserLeft(h, m.data.userId)
        \/ m.type = "offer" /\ OnOffer(h, m.data.senderId)
        \/ m.type = "answer" /\ OnAnswer(h, m.data.senderId)
        \/ m.type = "ice-candidate" /\ OnIceCandidate(h, m.data.senderId)
        \/ m.type = "user-status-update" /\ UNCHANGED hookVars
  /\ inbox' = [inbox EXCEPT ![h] = Tail(@)]
  /\ upstream' = Queued
  /\ UNCHANGED serverVars

CallNext ==
  \/ \E c \in Conns \ Hooks : Connection(c) /\ ServerSide
  \/ \E c \in Conns \ Hooks, roomId \in generateRoomId :
       CreateRoom(c, roomId) /\ ServerSide
  \/ \E c \in Conns \ Hooks, payload \in Payloads, targetId \in Hooks :
       Relay(c, "offer", payload, targetId, None) /\ ServerSide
  \/ \E h \in Hooks : Connects(h)
  \/ \E h \in Hooks : ServerTakes(h)
  \/ \E h \in Hooks : Delivers(h)
  \/ \E h \in Hooks : MediaSettled(h, None) /\ HookSide
  \/ \E h \in Hooks : InitTimer(h, FALSE, CallRoomId) /\ HookSide
  \/ \E h \in Hooks, userId \in Conns : UserJoinedTimer(h, userId) /\ HookSide
  \/ \E h \in Hooks, i \in 1..MaxTasks : Settle(h, i, TRUE) /\ HookSide
  \/ \E h \in Hooks, p \in 1..MaxPcs, candidate \in {None, "candidate"} :
       OnIceCandidateEvent(h, p, candidate) /\ HookSide
  \/ \E h \in Hooks, p \in 1..MaxPcs : OnTrack(h, p) /\ HookSide
  \/ \E h \in Hooks, p \in 1..MaxPcs, state \in ConnectionStates :
       OnConnectionStateChange(h, p, state) /\ HookSide

CallSpec == Init /\ [][CallNext]_vars

(***************************************************************************)
(* The controls of one hook: the user toggles audio, video and screen      *)
(* share at any time while one client sends the hook an offer or leaves.   *)
(***************************************************************************)
ControlPeer == SocketIdPool[1]

ControlNext ==
  \/ \E error \in {None} \cup MediaErrors :
       MediaSettled(HookClient, error) /\ UNCHANGED <<serverVars, netVars>>
  \/ OnOffer(HookClient, ControlPeer) /\ UNCHANGED <<serverVars, netVars>>
  \/ OnUserLeft(HookClient, ControlPeer) /\ UNCHANGED <<serverVars, netVars>>
  \/ \E i \in 1..MaxTasks :
       Settle(HookClient, i, TRUE) /\ UNCHANGED <<serverVars, netVars>>
  \/ ToggleAudio(HookClient) /\ UNCHANGED <<serverVars, netVars>>
  \/ ToggleVideo(HookClient) /\ UNCHANGED <<serverVars, netVars>>
  \/ ToggleScreenShare(HookClient) /\ UNCHANGED <<serverVars, netVars>>
  \/ \E i \in 1..MaxTasks, ok \in BOOLEAN :
       DisplaySettled(HookClient, i, ok) /\ UNCHANGED <<serverVars, netVars>>
  \/ \E i \in 1..MaxTasks, ok \in BOOLEAN :
       ReplaceSettled(HookClient, i, ok) /\ UNCHANGED <<serverVars, netVars>>
  \/ \E i \in 1..MaxTasks, error \in {None} \cup MediaErrors :
       CameraSettled(HookClient, i, error) /\ UNCHANGED <<serverVars, netVars>>
  \/ ScreenEnded(HookClient) /\ UNCHANGED <<serverVars, netVars>>

ControlSpec == Init /\ [][ControlNext]_vars

(***************************************************************************)
(* Properties of the registry and the relay.                               *)
(***************************************************************************)
RelayedKind == ev.type \in RelayKinds
RoomNotFound(c) == Msg(c, "error", [message |-> "Room not found"])
RoomFull(c) == Msg(c, "error", [message |-> "Room is full"])
RoomsOf(c) == {r \in DOMAIN rooms : c \in UserIds(rooms[r])}
ToldTrue(r) == {c \in UserIds(rooms[r]) : initiatorTold[c][r] = "true"}
ServerUnchanged ==
  UNCHANGED <<rooms, status, socketRoomId, socketUserName, adapterRooms>>

\* C1: a join-room naming a room id that is not in the registry sends the
\* requester the error 'Room not found' and nothing else: no room is created,
\* no membership list, socket.io room or socket.roomId changes.
C1_JoinMissingRoom ==
  [][(ev'.type = "join-room" /\ ev'.arg \notin DOMAIN rooms)
       => (sent' = {RoomNotFound(ev'.conn)} /\ ServerUnchanged)]_vars

\* C1 witness: a join-room was answered 'Room not found' while another room
\* with a member exists.
C1_Witness ==
  /\ ev.type = "join-room"
  /\ ev.arg \notin DOMAIN rooms
  /\ sent = {RoomNotFound(ev.conn)}
  /\ \E r \in DOMAIN rooms : Len(rooms[r]) > 0

C3_DuplicateJoinIdempotent ==
  /\ [](\A r \in DOMAIN rooms :
          Cardinality(UserIds(rooms[r])) = Len(rooms[r]))
  /\ [][(/\ ev'.type = "join-room"
         /\ ev'.arg \in DOMAIN rooms
         /\ ev'.conn \in UserIds(rooms[ev'.arg]))
          => (/\ ServerUnchanged
              /\ Cardinality(sent') = 1
              /\ \A m \in sent' : /\ m.to = ev'.conn
                                  /\ m.type = "room-joined"
                                  /\ m.data.roomId = ev'.arg
                                  /\ m.data.users = rooms[ev'.arg])]_vars

\* C3 witness: a listed socket joined again while the other listed user was
\* connected and in the socket.io room; only room-joined was sent.
C3_Witness ==
  /\ ev.type = "join-room"
  /\ console = <<Log("already in room", ev.arg)>>
  /\ Len(rooms[ev.arg]) = MaxUsers
  /\ To(ev.conn, ev.arg) # {}
  /\ \A m \in sent : m.type = "room-joined" /\ m.to = ev.conn

\* C4 (as claimed): when the only user listed in a room disconnects, the room
\* leaves the registry in that step, and a join-room to an id that is not in
\* the registry is answered 'Room not found'.
C4_LastLeaveDeletesRoom ==
  /\ [][\A r \in DOMAIN rooms :
          (ev'.type = "disconnect" /\ UserIds(rooms[r]) = {ev'.conn})
            => r \notin DOMAIN rooms']_vars
  /\ [][(ev'.type = "join-room" /\ ev'.arg \notin DOMAIN rooms)
          => RoomNotFound(ev'.conn) \in sent']_vars

\* C5 (as claimed): no room of the registry has zero users.
C5_NoEmptyRoom == \A r \in DOMAIN rooms : Len(rooms[r]) > 0

\* C5 (amended): a room with zero users is a room create-room has just made
\* or one that was empty already; join-room and disconnect never leave one.
C5_EmptyOnlyByCreate ==
  [][\A r \in DOMAIN rooms' :
       rooms'[r] = <<>>
         => \/ r \in DOMAIN rooms /\ rooms[r] = <<>>
            \/ ev'.type = "create-room" /\ ev'.arg = r]_vars

\* C5 witness: the last user of a room disconnected and the room was deleted.
C5_Witness ==
  /\ ev.type = "disconnect"
  /\ console = <<Log("User disconnected:", ev.conn),
                 Log("Room deleted:", ev.arg)>>
  /\ ev.arg \notin DOMAIN rooms

\* C6 (as claimed): create-room returns an id that no live room has, and
\* leaves every live room's list as it was.
C6_FreshRoomId ==
  [][ev'.type = "create-room"
       => /\ ev'.arg \notin DOMAIN rooms
          /\ \A r \in DOMAIN rooms : r \in DOMAIN rooms' /\ rooms'[r] = rooms[r]]_vars

\* C7 (as claimed): a socket id is in the list of at most one room, and of no
\* room once the socket has disconnected.
C7_OneRoomPerSocket ==
  \A c \in Conns :
    /\ Cardinality(RoomsOf(c)) <= 1
    /\ status[c] = "disconnected" => RoomsOf(c) = {}

\* C8 (as claimed): in a room that has users, exactly one listed user has been
\* told isInitiator = true.
C8_ExactlyOneInitiator ==
  \A r \in DOMAIN rooms : Len(rooms[r]) > 0 => Cardinality(ToldTrue(r)) = 1

\* C8 (amended): room-joined carries isInitiator = true exactly when its
\* recipient is first in the list it carries, so a listed user that has been
\* told true is the first of the room's list (and there is at most one).
C8_InitiatorIsFirstListed ==
  /\ \A m \in sent :
       m.type = "room-joined"
         => (m.data.isInitiator <=> m.data.users[1].id = m.to)
  /\ \A r \in DOMAIN rooms : \A c \in ToldTrue(r) : rooms[r][1].id = c

\* C8 witness: a room of 2, the first told true and the second told false,
\* right after the second joined.
C8_Witness ==
  /\ ev.type = "join-room"
  /\ ev.arg \in DOMAIN rooms
  /\ Len(rooms[ev.arg]) = MaxUsers
  /\ rooms[ev.arg][MaxUsers].id = ev.conn
  /\ initiatorTold[rooms[ev.arg][1].id][ev.arg] = "true"
  /\ initiatorTold[ev.conn][ev.arg] = "false"

\* C9 (as claimed): a relayed offer, answer or ice-candidate reaches no socket
\* but the one whose id is targetId, and nobody when that socket is not
\* connected.
C9_OnlyNamedTarget ==
  RelayedKind =>
    /\ \A m \in sent : m.to = ev.arg /\ m.type = ev.type
    /\ (ev.arg \notin Conns \/ status[ev.arg] # "connected") => sent = {}

\* C10 (as claimed): a relayed offer, answer or ice-candidate reaches a socket
\* only if sender and recipient are listed in one same room.
C10_SameRoomOnly ==
  RelayedKind =>
    \A m \in sent : \E r \in DOMAIN rooms : {ev.conn, m.to} \subseteq UserIds(rooms[r])

\* C11: every relayed offer, answer and ice-candidate a socket receives carries
\* as senderId the id of the socket that sent it, whatever senderId the
\* request itself held.
C11_SenderIdIsSocketId ==
  RelayedKind => \A m \in sent : m.data.senderId = ev.conn

\* C11 witness: a request holding a forged senderId was delivered to a socket
\* other than the forged one, with the sender's own id.
C11_Witness ==
  /\ RelayedKind
  /\ ev.extra[2] # None
  /\ ev.extra[2] # ev.conn
  /\ \E m \in sent : m.data.senderId = ev.conn /\ m.to # ev.extra[2]

Recipients(msgs, type) == {m.to : m \in {x \in msgs : x.type = type}}
Counts(msgs, type) == {m.data.usersCount : m \in {x \in msgs : x.type = type}}
Joined == ev'.type = "join-room" /\ console' = <<Log("joined room", ev'.arg)>>
LeftRooms == IF ev'.type = "disconnect" THEN RoomsOf(ev'.conn) ELSE {}
UsersAfter(r) == IF r \in DOMAIN rooms' THEN rooms'[r] ELSE <<>>

\* C12 (as claimed): a successful non-duplicate join sends user-joined to
\* exactly the other users listed in the room, and the disconnect of a listed
\* user sends user-left to exactly the users that stay listed in its room;
\* usersCount is the length of the room's list after the change.
C12_NotifyOtherMembers ==
  /\ [][Joined =>
         /\ Recipients(sent', "user-joined")
              = UserIds(rooms'[ev'.arg]) \ {ev'.conn}
         /\ Counts(sent', "user-joined") \subseteq {Len(rooms'[ev'.arg])}]_vars
  /\ [][\A r \in LeftRooms :
         /\ Recipients(sent', "user-left") = UserIds(rooms[r]) \ {ev'.conn}
         /\ Counts(sent', "user-left") \subseteq {Len(UsersAfter(r))}]_vars

\* C13 (as claimed): a disconnect removes the socket from every room that lists
\* it and sends user-left for it to each user that stays listed there; the
\* disconnect of a socket no room lists changes no room and sends nothing.
C13_DisconnectLeavesOnce ==
  [][ev'.type = "disconnect" =>
       /\ \A r \in LeftRooms :
            /\ ev'.conn \notin UserIds(UsersAfter(r))
            /\ UserIds(UsersAfter(r)) \subseteq Recipients(sent', "user-left")
            /\ \A m \in sent' : m.data.userId = ev'.conn
       /\ LeftRooms = {} => (rooms' = rooms /\ sent' = {})]_vars

(***************************************************************************)
(* Properties of the hook.                                                 *)
(***************************************************************************)
\* the hook of the last hook step, and what that step emitted
Emits(type) == {m \in emitted' : m.type = type}
StepOf(type) == hookEv'.type = type /\ nSteps' = nSteps + 1
\* no negotiation has begun: no handler is running, and the hook has no peer
\* connection or one without any description
Idle(h) ==
  /\ tasks[h] = <<>>
  /\ Ref(h) = NoPc \/ pcs[h][Ref(h)] = CreatedPc(h)
\* the participant a peer connection negotiates with
Partner(pc) == IF pc.remoteFrom # None THEN pc.remoteFrom ELSE pc.offeredTo
\* the remote candidates the hook still holds or has applied
Candidates(ts, ps) ==
  {ts[i].arg : i \in {j \in 1..Len(ts) : ts[j].op = "addIceCandidate"}}
    \cup UNION {ps[p].candidates : p \in 1..Len(ps)}

\* C14 (as claimed): when the user-joined timer fires in a hook that is in a
\* room, has its local stream and has not begun a negotiation, createOffer
\* starts for the new participant; and when its setLocalDescription
\* resolves, the connection is in have-local-offer and the offer is emitted
\* with the new participant as targetId.
C14_OfferOnUserJoined ==
  /\ [][\A h \in Hooks :
         (/\ StepOf("user-joined-timer") /\ hookEv'.hook = h
          /\ hook[h].currentRoomIdRef # None
          /\ hook[h].localStreamRef # None
          /\ Idle(h))
         => \E i \in 1..Len(tasks'[h]) :
              /\ tasks'[h][i].fn = "createOffer"
              /\ tasks'[h][i].arg = hookEv'.arg]_vars
  /\ [][\A h \in Hooks :
         (/\ StepOf("resolved") /\ hookEv'.hook = h
          /\ hookEv'.fn = "createOffer"
          /\ hookEv'.op = "setLocalDescription")
         => /\ pcs'[h][hookEv'.pc].signalingState = "have-local-offer"
            /\ \E m \in Emits("offer") : m.targetId = hookEv'.arg]_vars

\* nothing is in flight and no callback of a hook is pending
Quiescent ==
  \A h \in Hooks :
    inbox[h] = <<>> /\ upstream[h] = <<>> /\ timers[h] = {} /\ tasks[h] = <<>>
\* both hooks are listed in one room and have handled its room-joined
InCall(x, y) ==
  \E r \in DOMAIN rooms :
    /\ {x, y} \subseteq UserIds(rooms[r])
    /\ hook[x].currentRoomIdRef = r
    /\ hook[y].currentRoomIdRef = r
\* the peer connection of x has completed an offer/answer round with y
StableWith(x, y) ==
  /\ Ref(x) # NoPc
  /\ pcs[x][Ref(x)].signalingState = "stable"
  /\ pcs[x][Ref(x)].localDescription # None
  /\ pcs[x][Ref(x)].remoteFrom = y

\* C15 (as claimed, in its finite form): once two hooks are members of one
\* room and every message, timer and operation of the run has been handled
\* (none was rejected, nobody disconnected), each of the two has a peer
\* connection that has exchanged offer and answer with the other and is in
\* the signaling state stable.
C15_CallEstablished ==
  \A x \in Hooks, y \in Hooks :
    (x # y /\ Quiescent /\ InCall(x, y)) => StableWith(x, y)

\* C16 (as claimed): an answer is emitted only from a peer connection whose
\* remote description is an offer; a handleOffer whose operation is rejected
\* ends without emitting, and none is left awaiting a closed connection;
\* and every answer is emitted to the sender of the offer it was made for.
C16_AnswerAfterOfferToSender ==
  /\ [][\A h \in Hooks : \A m \in Emits("answer") :
         hookEv'.hook = h => pcs[h][m.pc].remoteDescription = "offer"]_vars
  /\ [][\A h \in Hooks :
         /\ (StepOf("rejected") /\ hookEv'.hook = h)
              => (emitted' = {} /\ Len(tasks'[h]) = Len(tasks[h]) - 1)
         /\ \A i \in 1..Len(tasks'[h]) : pcs'[h][tasks'[h][i].pc] # ClosedPc]_vars
  /\ [][\A m \in Emits("answer") : m.targetId = m.re]_vars

\* C17 (as claimed): every ice-candidate message a hook emits has as
\* targetId the participant its peer connection negotiates with.
C17_CandidateToPartner ==
  [][\A h \in Hooks : \A m \in Emits("ice-candidate") :
       hookEv'.hook = h => m.targetId = Partner(pcs[h][m.pc])]_vars

\* C18 (as claimed): a remote candidate that arrives while the hook has no
\* peer connection, or one without a remote description, is kept: after the
\* step, and after the step that settles its addIceCandidate, the hook
\* still holds it or has applied it.
C18_CandidateBuffered ==
  [][\A h \in Hooks :
       (/\ hookEv'.hook = h
        /\ \/ StepOf("ice-candidate")
           \/ StepOf("rejected") /\ hookEv'.op = "addIceCandidate"
        /\ \/ Ref(h) = NoPc
           \/ pcs[h][Ref(h)].remoteDescription = None)
       => hookEv'.arg \in Candidates(tasks'[h], pcs'[h])]_vars

\* C19: the user-left handler closes the peer connection of the hook,
\* clears peerConnectionRef and sets the remote stream to null, whatever
\* the connection was doing; no handler is left awaiting a closed
\* connection and no message is emitted from one.
C19_UserLeftCloses ==
  [][\A h \in Hooks :
       /\ (StepOf("user-left") /\ hookEv'.hook = h)
            => /\ hook'[h].peerConnectionRef = NoPc
               /\ hook'[h].remoteStream = NoPc
               /\ hookEv'.pc # NoPc => pcs'[h][hookEv'.pc] = ClosedPc
       /\ \A i \in 1..Len(tasks'[h]) : pcs'[h][tasks'[h][i].pc] # ClosedPc
       /\ \A m \in emitted' :
            (hookEv'.hook = h /\ m.pc # NoPc)
              => (pcs[h][m.pc] # ClosedPc /\ pcs'[h][m.pc] # ClosedPc)]_vars

\* C19 witness: user-left has just closed a peer connection that was in
\* the middle of a negotiation, with the timer of a joined user pending.
C19_Witness ==
  /\ hookEv.type = "user-left"
  /\ hookEv.pc # NoPc
  /\ pcs[hookEv.hook][hookEv.pc] = ClosedPc
  /\ hook[hookEv.hook].peerConnectionRef = NoPc
  /\ timers[hookEv.hook] # {}

\* C20 (as claimed): when a peer connection reports the connection state
\* failed or disconnected, the hook closes it, clears peerConnectionRef and
\* sets the remote stream to null.
C20_FailureCloses ==
  [][\A h \in Hooks :
       (/\ StepOf("connectionstatechange") /\ hookEv'.hook = h
        /\ hookEv'.arg \in {"failed", "disconnected"})
       => /\ pcs'[h][hookEv'.pc] = ClosedPc
          /\ hook'[h].peerConnectionRef = NoPc
          /\ hook'[h].remoteStream = NoPc]_vars

\* "Multiple participants (default max 6)"
DocumentedMaxUsers == 6

\* C24 (as claimed): a join-room of a socket that is not listed in the room,
\* to a room of the registry that lists fewer than 6 users, adds the socket
\* to the room's list.
C24_AdmitsSix ==
  [][(/\ ev'.type = "join-room"
      /\ ev'.arg \in DOMAIN rooms
      /\ ev'.conn \notin UserIds(rooms[ev'.arg])
      /\ Len(rooms[ev'.arg]) < DocumentedMaxUsers)
     => (ev'.arg \in DOMAIN rooms' /\ ev'.conn \in UserIds(rooms'[ev'.arg]))]_vars

\* the connected sockets that socket.to(r) reaches when nobody is excepted
Audience(r) == {d \in Conns : status[d] = "connected" /\ r \in adapterRooms[d]}

\* C28 (as claimed): for every room of the registry the sockets in its
\* socket.io room are the sockets of its list, and no list holds a socket
\* that has disconnected.
C28_AudienceIsMembership ==
  \A r \in DOMAIN rooms :
    /\ Audience(r) = UserIds(rooms[r])
    /\ \A c \in UserIds(rooms[r]) : status[c] = "connected"

(***************************************************************************)
(* Properties of the controls.                                             *)
(***************************************************************************)
\* a step of toggleScreenShare or of the onended handler of a screen track
ScreenShareStep ==
  /\ nSteps' = nSteps + 1
  /\ hookEv'.fn \in {"toggleScreenShare", "onended"}

\* what the negotiation of a peer connection has set
Negotiation(pc) ==
  <<pc.signalingState, pc.localDescription, pc.remoteDescription,
    pc.remoteFrom, pc.offeredTo>>

\* C21: a step of toggleScreenShare or of the share-stop event emits no
\* message, starts no operation of a peer connection and leaves the
\* signaling state and the descriptions of every peer connection as they
\* were; a share that starts when the hook has no peer connection with a
\* video sender changes no peer connection.
C21_ScreenShareNoNegotiation ==
  [][ScreenShareStep =>
       LET h == hookEv'.hook
       IN /\ emitted' = {}
          /\ tasks' = tasks
          /\ DOMAIN pcs'[h] = DOMAIN pcs[h]
          /\ \A p \in DOMAIN pcs[h] :
               Negotiation(pcs'[h][p]) = Negotiation(pcs[h][p])
          /\ (hookEv'.op \in {None, "getDisplayMedia"} /\ ~HasVideoSender(h))
               => pcs' = pcs]_vars

\* a screen track has replaced the camera track of an answered peer
\* connection, which is stable
C21_Witness ==
  /\ hookEv.type = "resolved"
  /\ hookEv.op = "replaceTrack"
  /\ pcs[hookEv.hook][hookEv.pc].videoSender = "screen"
  /\ pcs[hookEv.hook][hookEv.pc].signalingState = "stable"
  /\ pcs[hookEv.hook][hookEv.pc].localDescription = "answer"

\* C22 (as claimed): when the hook is not sharing its screen and waits for
\* no media, the video sender of every open peer connection carries a
\* camera track.
C22_CameraRestored ==
  \A h \in Hooks :
    (~hook[h].isScreenSharing /\ hook[h].awaited = <<>>)
      => \A p \in DOMAIN pcs[h] :
           IsOpen(h, p) => pcs[h][p].videoSender # "screen"

\* C30 (as claimed): the flags isAudioEnabled and isVideoEnabled equal the
\* enabled state of the tracks of the current local stream.
C30_FlagsMatchTracks ==
  \A h \in Hooks :
    hook[h].localStreamRef # None
      => /\ hook[h].isAudioEnabled = hook[h].audioEnabled
         /\ hook[h].isVideoEnabled = hook[h].videoEnabled

\* the three reasons initializeMedia reports
LeaveMessages == {LeaveMessage(error) : error \in MediaErrors}

\* the first getUserMedia of the hook has settled without a stream
MediaFailed(h) == hook[h].phase # "media" /\ hook[h].localStreamRef = None

\* what a hook has of a session: a socket, messages sent, peer connections,
\* operations and timers
NoSession(h) ==
  /\ ~SocketRef(h)
  /\ status[h] = "new"
  /\ upstream[h] = <<>>
  /\ pcs[h] = <<>> /\ Ref(h) = NoPc
  /\ tasks[h] = <<>> /\ timers[h] = {}

\* C23: the step in which the first getUserMedia of a hook fails reports
\* one of the three reasons through onLeaveRoomWithError, and from then on
\* the hook has no socket, emits nothing, and has no peer connection, no
\* timer and no pending operation of a peer connection.
C23_MediaFailureAborts ==
  [][\A h \in Hooks :
       MediaFailed(h)'
         => /\ NoSession(h)'
            /\ hookEv'.hook = h => emitted' = {}
            /\ ~MediaFailed(h)
                 => /\ hookEv'.type = "media-error" /\ hookEv'.hook = h
                    /\ hookEv'.arg \in LeaveMessages]_vars

\* getUserMedia found no camera and the hook has reported it
C23_Witness ==
  /\ MediaFailed(HookClient)
  /\ hookEv.type = "media-error"
  /\ hookEv.arg = "No camera found. Please connect a camera and try again."

\* the senders whose descriptions or candidates a peer connection has applied,
\* and the participant it has made an offer for
Remotes(pc) == ({pc.remoteFrom, pc.offeredTo} \cup pc.candidates) \ {None}

\* C25 (as claimed): no peer connection ever has to do with two remote
\* participants: a description or a candidate is applied only to a peer
\* connection that has none from, and no offer for, another participant.
C25_OnePcPerParticipant ==
  [][\A h \in Hooks : \A p \in DOMAIN pcs'[h] :
       Cardinality(Remotes(pcs'[h][p])) <= 1]_vars

\* what the hook returns to the component that uses it
Exposed(h) ==
  <<hook[h].localStreamRef, hook[h].remoteStream, hook[h].users,
    hook[h].isAudioEnabled, hook[h].isVideoEnabled, hook[h].isScreenSharing,
    hook[h].connectionStatus>>

\* C26 (as claimed): the step in which the setRemoteDescription of a
\* received offer or answer is rejected shows the failure: it changes what
\* the hook returns.
C26_FailureSurfaced ==
  [][\A h \in Hooks :
       (/\ StepOf("rejected") /\ hookEv'.hook = h
        /\ hookEv'.fn \in {"handleOffer", "handleAnswer"}
        /\ hookEv'.op = "setRemoteDescription")
         => Exposed(h)' # Exposed(h)]_vars

\* the operation the browser performs next on its peer connection
IsNext(h, i) == \A j \in 1..(i - 1) : tasks[h][j].pc # tasks[h][i].pc

\* C27 (as claimed): the browser accepts the setRemoteDescription of an
\* answer only if the answer came while the peer connection was in
\* have-local-offer, and applies it only in that state; the handler of an
\* answer creates no peer connection, emits nothing and leaves the peer
\* connections as they were.
C27_AnswerOnlyInHaveLocalOffer ==
  /\ [](\A h \in Hooks : \A i \in 1..Len(tasks[h]) :
          (/\ tasks[h][i].fn = "handleAnswer"
           /\ IsNext(h, i)
           /\ Valid(pcs[h][tasks[h][i].pc], tasks[h][i]))
            => tasks[h][i].desc = "have-local-offer")
  /\ [][\A h \in Hooks :
         /\ (StepOf("resolved") /\ hookEv'.hook = h
                /\ hookEv'.fn = "handleAnswer")
              => pcs[h][hookEv'.pc].signalingState = "have-local-offer"
         /\ (StepOf("answer") /\ hookEv'.hook = h)
              => (pcs' = pcs /\ emitted' = {} /\ Ref(h)' = Ref(h))]_vars

\* C29 (as claimed): a hook that is listed in the room it has joined and has
\* handled every message sent to it shows the users the server lists in
\* that room.
C29_UsersMatchServer ==
  \A h \in Hooks :
    (/\ inbox[h] = <<>>
     /\ hook[h].currentRoomIdRef \in DOMAIN rooms
     /\ h \in UserIds(rooms[hook[h].currentRoomIdRef]))
      => UserIds(hook[h].users) = UserIds(rooms[hook[h].currentRoomIdRef])

\* C31 (as claimed): the timer of a user whose user-left was handled while
\* the timer was pending starts no createOffer for that user, creates no
\* peer connection and emits nothing.
C31_NoOfferToDeparted ==
  [][\A h \in Hooks :
       (StepOf("user-joined-timer") /\ hookEv'.hook = h
          /\ hookEv'.arg \in hook[h].departed)
         => (tasks' = tasks /\ pcs' = pcs /\ emitted' = {})]_vars

====
